---- MODULE Spec2Model ----
(***************************************************************************)
(* cargo-contract `build` command: BuildCommand::exec (cmd/build.rs) and   *)
(* build_solidity_contract (cmd/solidity.rs).                              *)
(*                                                                         *)
(* One BuildCommand value (`self`) is parsed from the command line; exec   *)
(* runs on it in a process of its own.  The steps of exec and of           *)
(* build_solidity_contract are the actions; the file system, the two       *)
(* spawned programs and the external crate contract_build are the          *)
(* environment, whose answers are chosen nondeterministically at the step  *)
(* that asks for them.                                                     *)
(***************************************************************************)
EXTENDS Integers, Sequences, FiniteSets, TLC

(***************************************************************************)
(* Bounds                                                                  *)
(***************************************************************************)
\* at most this many flags besides --solang / --solidity-filename are given
MaxExtraFlags == 2

(***************************************************************************)
(* Option<T>, Result<T, E>                                                 *)
(***************************************************************************)
None == <<>>
Some(v) == <<v>>
IsSome(o) == o # <<>>
Unwrap(o) == o[1]

NoResult == [tag |-> "None"]
Ok(v) == [tag |-> "Ok", val |-> v]
Err(e) == [tag |-> "Err", err |-> e]

(***************************************************************************)
(* Strings.  A path whose characters the code inspects is a sequence of    *)
(* one-character strings; Str turns it into the string it spells.          *)
(***************************************************************************)
RECURSIVE Str(_)
Str(cs) == IF cs = <<>> THEN "" ELSE Head(cs) \o Str(Tail(cs))

\* [String]::concat
RECURSIVE Concat(_)
Concat(arr) == IF arr = <<>> THEN "" ELSE Head(arr) \o Concat(Tail(arr))

\* [String]::join(sep)
RECURSIVE Join(_, _)
Join(arr, sep) ==
    IF arr = <<>> THEN ""
    ELSE IF Len(arr) = 1 THEN arr[1]
    ELSE arr[1] \o sep \o Join(Tail(arr), sep)

(***************************************************************************)
(* std::path::Path::file_name and Path::extension                          *)
(***************************************************************************)
\* Path::components drops trailing separators and trailing `.` components
RECURSIVE TrimPath(_)
TrimPath(p) ==
    IF Len(p) > 1 /\ p[Len(p)] = "/" THEN TrimPath(SubSeq(p, 1, Len(p) - 1))
    ELSE IF Len(p) > 1 /\ p[Len(p)] = "." /\ p[Len(p) - 1] = "/"
         THEN TrimPath(SubSeq(p, 1, Len(p) - 1))
    ELSE p

LastIndexOf(p, c) ==
    LET I == {i \in 1..Len(p) : p[i] = c}
    IN  IF I = {} THEN 0 ELSE CHOOSE i \in I : \A j \in I : j <= i

\* the last component when it is a normal one
file_name(p) ==
    LET t == TrimPath(p)
        name == SubSeq(t, LastIndexOf(t, "/") + 1, Len(t))
    IN  IF name \in {<<>>, <<".">>, <<".", ".">>} THEN None ELSE Some(name)

\* the part of file_name after its last `.`, unless the name has no `.` or
\* only a leading one
extension(p) ==
    LET f == file_name(p)
    IN  IF ~IsSome(f) THEN None
        ELSE LET name == Unwrap(f)
                 dot == LastIndexOf(name, ".")
             IN  IF dot = 0 THEN None
                 ELSE IF dot = 1 THEN None
                 ELSE Some(SubSeq(name, dot + 1, Len(name)))

get_extension_from_filename(filename) == extension(filename)

(***************************************************************************)
(* Inputs: the values a flag may carry on the command line                 *)
(***************************************************************************)
\* --solidity-filename values: `a.sol`, `d/a.sol`, `a.txt`, `a.rs`, `a`, `.sol`
SolidityFilenames ==
    { <<"a", ".", "s", "o", "l">>,
      <<"d", "/", "a", ".", "s", "o", "l">>,
      <<"a", ".", "t", "x", "t">>,
      <<"a", ".", "r", "s">>,
      <<"a">>,
      <<".", "s", "o", "l">> }

\* directories the command may be run from
Dirs == {"/w", "/v"}

\* The directory of the first run.  The code never looks into the name of a
\* directory, so which one comes first makes no difference; later runs are
\* in any directory of Dirs.
StartDir == "/w"

\* exit statuses of the platform shell
ExitCodes == {0, 1, 127}

\* what the shell's captured standard output may hold
Outputs ==
    { [utf8 |-> TRUE, text |-> ""],
      [utf8 |-> TRUE, text |-> "/reported"],
      [utf8 |-> FALSE, text |-> ""] }

DEFAULT_MAX_MEMORY_PAGES == 16

(***************************************************************************)
(* struct BuildCommand: the value clap yields when no flag is given        *)
(***************************************************************************)
DefaultCommand ==
    [ manifest_path |-> None,
      build_release |-> FALSE,
      build_offline |-> FALSE,
      lint |-> FALSE,
      build_artifact |-> "All",
      features |-> <<>>,
      verbosity |-> [quiet |-> FALSE, verbose |-> FALSE],
      unstable_options |-> <<>>,
      optimization_passes |-> None,
      keep_debug_symbols |-> FALSE,
      output_json |-> FALSE,
      skip_wasm_validation |-> FALSE,
      target |-> "Wasm",
      max_memory_pages |-> DEFAULT_MAX_MEMORY_PAGES,
      solang |-> FALSE,
      emit |-> None,
      contract |-> None,
      no_constant_folding |-> FALSE,
      no_strength_reduce |-> FALSE,
      optimizer_level |-> None,
      no_dead_storage |-> FALSE,
      address_length |-> None,
      no_vector_to_slice |-> FALSE,
      no_cse |-> FALSE,
      value_length |-> None,
      standard_json |-> FALSE,
      output |-> None,
      output_meta |-> None,
      import_path |-> None,
      import_map |-> None,
      no_log_api_return_codes |-> FALSE,
      no_log_runtime_errors |-> FALSE,
      no_print |-> FALSE,
      solidity_filename |-> None ]

\* the flags of the command line, besides --solang and --solidity-filename
FlagNames ==
    { "--manifest-path", "--release", "--offline", "--lint", "--generate",
      "--features", "--quiet", "--verbose", "-Z", "--optimization-passes",
      "--keep-debug-symbols", "--output-json", "--skip-wasm-validation",
      "--target", "--max-memory-pages",
      "--emit", "--contract", "--no-constant-folding", "--no-strength-reduce",
      "-O", "--no-dead-storage", "--address-length", "--no-vector-to-slice",
      "--no-cse", "--value-length", "--standard-json", "--output",
      "--output-meta", "-I", "-m", "--no-log-api-return-codes",
      "--no-log-runtime-errors", "--no-print" }

\* the BuildCommand after one more flag was parsed
WithFlag(c, flag) ==
    CASE flag = "--manifest-path" -> [c EXCEPT !.manifest_path = Some("m/Cargo.toml")]
      [] flag = "--release" -> [c EXCEPT !.build_release = TRUE]
      [] flag = "--offline" -> [c EXCEPT !.build_offline = TRUE]
      [] flag = "--lint" -> [c EXCEPT !.lint = TRUE]
      [] flag = "--generate" -> [c EXCEPT !.build_artifact = "CodeOnly"]
      [] flag = "--features" -> [c EXCEPT !.features = <<"f1">>]
      [] flag = "--quiet" -> [c EXCEPT !.verbosity.quiet = TRUE]
      [] flag = "--verbose" -> [c EXCEPT !.verbosity.verbose = TRUE]
      [] flag = "-Z" -> [c EXCEPT !.unstable_options = <<"original-manifest">>]
      [] flag = "--optimization-passes" -> [c EXCEPT !.optimization_passes = Some("Three")]
      [] flag = "--keep-debug-symbols" -> [c EXCEPT !.keep_debug_symbols = TRUE]
      [] flag = "--output-json" -> [c EXCEPT !.output_json = TRUE]
      [] flag = "--skip-wasm-validation" -> [c EXCEPT !.skip_wasm_validation = TRUE]
      [] flag = "--target" -> [c EXCEPT !.target = "RiscV"]
      [] flag = "--max-memory-pages" -> [c EXCEPT !.max_memory_pages = 32]
      [] flag = "--emit" -> [c EXCEPT !.emit = Some("llvm-ir")]
      [] flag = "--contract" -> [c EXCEPT !.contract = Some("flipper")]
      [] flag = "--no-constant-folding" -> [c EXCEPT !.no_constant_folding = TRUE]
      [] flag = "--no-strength-reduce" -> [c EXCEPT !.no_strength_reduce = TRUE]
      [] flag = "-O" -> [c EXCEPT !.optimizer_level = Some("aggressive")]
      [] flag = "--no-dead-storage" -> [c EXCEPT !.no_dead_storage = TRUE]
      [] flag = "--address-length" -> [c EXCEPT !.address_length = Some(20)]
      [] flag = "--no-vector-to-slice" -> [c EXCEPT !.no_vector_to_slice = TRUE]
      [] flag = "--no-cse" -> [c EXCEPT !.no_cse = TRUE]
      [] flag = "--value-length" -> [c EXCEPT !.value_length = Some(8)]
      [] flag = "--standard-json" -> [c EXCEPT !.standard_json = TRUE]
      [] flag = "--output" -> [c EXCEPT !.output = Some("/b")]
      [] flag = "--output-meta" -> [c EXCEPT !.output_meta = Some("/a")]
      [] flag = "-I" -> [c EXCEPT !.import_path = Some("lib")]
      [] flag = "-m" -> [c EXCEPT !.import_map = Some("m=lib")]
      [] flag = "--no-log-api-return-codes" -> [c EXCEPT !.no_log_api_return_codes = TRUE]
      [] flag = "--no-log-runtime-errors" -> [c EXCEPT !.no_log_runtime_errors = TRUE]
      [] flag = "--no-print" -> [c EXCEPT !.no_print = TRUE]

RECURSIVE WithFlags(_, _)
WithFlags(c, flags) ==
    IF flags = <<>> THEN c ELSE WithFlags(WithFlag(c, Head(flags)), Tail(flags))

\* clap rejects --output-json together with --verbose (conflicts_with)
ClapAccepts(c) == ~(c.output_json /\ c.verbosity.verbose)

\* every BuildCommand clap can hand to exec within the bound
BuildCommands ==
    { c \in { WithFlags([DefaultCommand EXCEPT !.solang = s[1], !.solidity_filename = s[2]], fl) :
                s \in BOOLEAN \X ({None} \cup {Some(f) : f \in SolidityFilenames}),
                fl \in UNION {[1..n -> FlagNames] : n \in 0..MaxExtraFlags} } :
        ClapAccepts(c) }

(***************************************************************************)
(* Errors.  `names` is the path the message of the error spells out.       *)
(***************************************************************************)
\* std::io::Error of a failed canonicalize: "No such file or directory (os error 2)"
IoNotFound == [kind |-> "io::Error NotFound", names |-> None]
\* anyhow::bail!("Unable to find solidity_filename: {:?}", None)
MissingFilenameError == [kind |-> "Unable to find solidity_filename", names |-> None]
\* anyhow::bail!("Unable to find file {:?} with Solidity file extension in the project root", f)
PathError(filename) ==
    [kind |-> "Unable to find file with Solidity file extension", names |-> Some(Str(filename))]
\* the error of TryFrom<&VerbosityFlags>
VerbosityError == [kind |-> "Cannot pass both --quiet and --verbose flags", names |-> None]
ManifestError == [kind |-> "ManifestPath::try_from", names |-> None]
UnstableError == [kind |-> "UnstableFlags::try_from", names |-> None]
BuildError == [kind |-> "contract_build::execute", names |-> None]

(***************************************************************************)
(* contract_build: conversions of the flag groups                          *)
(***************************************************************************)
\* impl TryFrom<&VerbosityFlags> for Verbosity
VerbosityTryFrom(flags) ==
    CASE flags.quiet /\ flags.verbose -> Err(VerbosityError)
      [] flags.quiet /\ ~flags.verbose -> Ok("Quiet")
      [] ~flags.quiet /\ flags.verbose -> Ok("Verbose")
      [] OTHER -> Ok("Default")

(***************************************************************************)
(* BuildCommand::exec, Solidity mode                                       *)
(***************************************************************************)
\* std::fs::canonicalize of a path that exists, seen from directory dir
Canonicalize(dir, path) ==
    IF path # <<>> /\ path[1] = "/" THEN Str(path) ELSE dir \o "/" \o Str(path)

\* variant: the Solidity path is taken only when a source file was named
SolangMode_NeedsFilename(c) == c.solang /\ IsSome(c.solidity_filename)

\* the mode switch of exec
SolangMode(c) == c.solang

\* variant: `&&` for `||`
BadSolidityFile_And(filename, exists_solidity_file) ==
    /\ get_extension_from_filename(filename) # Some(<<"s", "o", "l">>)
    /\ ~exists_solidity_file

\* the condition under which exec rejects the source file
BadSolidityFile(filename, exists_solidity_file) ==
    \/ get_extension_from_filename(filename) # Some(<<"s", "o", "l">>)
    \/ ~exists_solidity_file

\* variant: the source file is validated only when one was named
ValidateSolang_FilenameOptional(c, root_ok, canon_ok, exists) ==
    IF ~root_ok THEN Err(IoNotFound)
    ELSE IF ~IsSome(c.solidity_filename) THEN Ok(<<>>)
    ELSE IF ~canon_ok THEN Err(IoNotFound)
    ELSE IF get_extension_from_filename(Unwrap(c.solidity_filename)) # Some(<<"s", "o", "l">>)
            \/ ~exists
         THEN Err(PathError(Unwrap(c.solidity_filename)))
    ELSE Ok(Unwrap(c.solidity_filename))

\* Validation of exec in Solidity mode: Err(e) when exec returns e, else
\* Ok(the source filename).  root_ok, canon_ok: whether canonicalize of `./`
\* and of the source path succeed; exists: what Path::exists answers.
ValidateSolang(c, root_ok, canon_ok, exists) ==
    IF ~root_ok THEN Err(IoNotFound)
    ELSE IF ~IsSome(c.solidity_filename) THEN Err(MissingFilenameError)
    ELSE IF ~canon_ok THEN Err(IoNotFound)
    ELSE IF BadSolidityFile(Unwrap(c.solidity_filename), exists)
         THEN Err(PathError(Unwrap(c.solidity_filename)))
    ELSE Ok(Unwrap(c.solidity_filename))

\* `--flag value` for a given option, the empty string for an absent one
OptToken(flag, opt) == IF IsSome(opt) THEN Concat(<<flag, " ", Unwrap(opt)>>) ELSE ""
\* the same for an Option<u8>, rendered by to_string
NumToken(flag, opt) == IF IsSome(opt) THEN Concat(<<flag, " ", ToString(Unwrap(opt))>>) ELSE ""
\* `--flag` for a switch that is set
SwitchToken(flag, on) == IF on = TRUE THEN flag ELSE ""

\* variant: the canonicalized path is passed on
FilenameArg_Canonical(filename, canonical_solidity_file_dir) == canonical_solidity_file_dir

\* The last argument of the call.  canonical_solidity_file_dir is the local
\* exec computed during validation; the call passes the filename as given.
FilenameArg(filename, canonical_solidity_file_dir) == Str(filename)

\* The arguments exec passes to build_solidity_contract, under the names of
\* its parameters.
SolangArgs(c, verbosity, filename, canonical_solidity_file_dir) ==
    [ emit |-> OptToken("--emit", c.emit),
      contract |-> OptToken("--contract", c.contract),
      no_constant_folding |-> SwitchToken("--no-constant-folding", c.no_constant_folding),
      no_strength_reduce |-> SwitchToken("--no-strength-reduce", c.no_strength_reduce),
      optimizer_level |-> OptToken("-O", c.optimizer_level),
      no_dead_storage |-> SwitchToken("--no-dead-storage", c.no_dead_storage),
      target |-> "--target substrate",
      address_length |-> NumToken("--address-length", c.address_length),
      no_vector_to_slice |-> SwitchToken("--no-vector-to-slice", c.no_vector_to_slice),
      no_cse |-> SwitchToken("--no-cse", c.no_cse),
      value_length |-> NumToken("--value-length", c.value_length),
      standard_json |-> SwitchToken("--standard-json", c.standard_json),
      verbose |-> SwitchToken("--verbose", verbosity = "Verbose"),
      output_dir |-> OptToken("--output", c.output),
      output_meta |-> OptToken("--output-meta", c.output_meta),
      import_path |-> OptToken("-I", c.import_path),
      import_map |-> OptToken("-m", c.import_map),
      no_log_api_return_codes |-> SwitchToken("--no-log-api-return-codes", c.no_log_api_return_codes),
      no_log_runtime_errors |-> SwitchToken("--no-log-runtime-errors", c.no_log_runtime_errors),
      no_print |-> SwitchToken("--no-print", c.no_print),
      release |-> SwitchToken("--release", c.build_release),
      solidity_filename |-> FilenameArg(filename, canonical_solidity_file_dir) ]

\* build_mode of the BuildResult exec synthesizes
ResultBuildMode(build_release) == IF build_release THEN "Release" ELSE "Debug"

\* the BuildResult exec returns after build_solidity_contract returned Ok
SolangBuildResult(c, args, verbosity) ==
    [ target_directory |-> args.output_dir,
      build_mode |-> ResultBuildMode(c.build_release),
      build_artifact |-> "All",
      verbosity |-> IF verbosity = "Verbose" THEN "Verbose" ELSE "Default",
      output_type |-> "Json",
      dest_wasm |-> Some(args.output_meta),
      metadata_result |-> None,
      optimization_result |-> None ]

(***************************************************************************)
(* build_solidity_contract                                                 *)
(***************************************************************************)
\* the directory the artifacts are announced to go to
UsedOutputDir(output_dir, output_meta, canonical_project_root_dir_str) ==
    IF output_meta = ""
    THEN IF output_dir = "" THEN canonical_project_root_dir_str ELSE output_dir
    ELSE output_meta

\* variant: a probe that cannot spawn `solang` makes the function return
\* the error of the spawn
ProbeReturn_FailFast(outcome) ==
    IF outcome = "Ok" THEN NoResult
    ELSE Err([kind |-> "io::Error spawn", names |-> None])

\* What the match on the probe's spawn returns from the function: nothing,
\* every arm only prints.
ProbeReturn(outcome) == NoResult

\* variant: absent flags leave no token behind
AssembleCommand_SkipEmpty(p) ==
    Join(SelectSeq(
         << "solang", "compile", p.emit, p.contract, p.no_constant_folding,
            p.no_strength_reduce, p.optimizer_level, p.no_dead_storage, p.target,
            p.address_length, p.no_vector_to_slice, p.no_cse, p.value_length,
            p.standard_json, p.verbose, p.output_dir, p.output_meta, p.import_path,
            p.import_map, p.no_log_api_return_codes, p.no_log_runtime_errors,
            p.no_print, p.release, p.solidity_filename >>,
         LAMBDA t : t # ""), " ")

\* the command line handed to the shell
AssembleCommand(p) ==
    Join(<< "solang", "compile", p.emit, p.contract, p.no_constant_folding,
            p.no_strength_reduce, p.optimizer_level, p.no_dead_storage, p.target,
            p.address_length, p.no_vector_to_slice, p.no_cse, p.value_length,
            p.standard_json, p.verbose, p.output_dir, p.output_meta, p.import_path,
            p.import_map, p.no_log_api_return_codes, p.no_log_runtime_errors,
            p.no_print, p.release, p.solidity_filename >>, " ")

\* variant: a nonzero exit status of the shell is returned as an error
BuildSolidityReturn_CheckStatus(code, out) ==
    IF ~out.utf8 THEN [tag |-> "Panic"]
    ELSE IF code # 0 THEN Err([kind |-> "solang exit status", names |-> None])
    ELSE Ok("()")

\* How build_solidity_contract ends once the shell has ended with exit
\* status `code` and captured standard output `out`: from_utf8(..).unwrap()
\* panics on bytes that are not UTF-8, else the function returns Ok(()).
BuildSolidityReturn(code, out) ==
    IF ~out.utf8 THEN [tag |-> "Panic"] ELSE Ok("()")

\* cfg!(target_os = ..) is settled when the program is built: the build
\* studied is one for a system with `sh`
build_target_os == "unix"

\* the platform shell and its arguments
ShellCommand(target_os, arg, canonical_project_root_dir) ==
    IF target_os = "windows"
    THEN [program |-> "cmd", current_dir |-> canonical_project_root_dir, args |-> <<"/C", arg>>]
    ELSE [program |-> "sh", current_dir |-> canonical_project_root_dir, args |-> <<"-c", arg>>]

(***************************************************************************)
(* BuildCommand::exec, native mode                                         *)
(***************************************************************************)
\* variant: the flag is not consulted
NativeBuildMode_AlwaysDebug(build_release) == "Debug"

NativeBuildMode(build_release) == IF build_release THEN "Release" ELSE "Debug"

\* variant: the verbosity of the flags is kept
NativeVerbosity_Keep(output_type, verbosity) == verbosity

\* verbosity of the ExecuteArgs: only the JSON document may reach stdout
NativeVerbosity(output_type, verbosity) ==
    IF output_type = "Json" THEN "Quiet" ELSE verbosity

ExecuteArgsOf(c, manifest_path, unstable_flags, verbosity) ==
    LET output_type == IF c.output_json THEN "Json" ELSE "HumanReadable"
    IN  [ manifest_path |-> manifest_path,
          verbosity |-> NativeVerbosity(output_type, verbosity),
          build_mode |-> NativeBuildMode(c.build_release),
          features |-> c.features,
          network |-> IF c.build_offline THEN "Offline" ELSE "Online",
          build_artifact |-> c.build_artifact,
          unstable_flags |-> unstable_flags,
          optimization_passes |-> c.optimization_passes,
          keep_debug_symbols |-> c.keep_debug_symbols,
          lint |-> c.lint,
          output_type |-> output_type,
          skip_wasm_validation |-> c.skip_wasm_validation,
          target |-> c.target,
          max_memory_pages |-> c.max_memory_pages ]

(***************************************************************************)
(* State                                                                   *)
(***************************************************************************)
VARIABLES
    self,               \* the parsed BuildCommand
    cwd,                \* the directory the process runs in
    pc,                 \* where the process is: start, probe, assemble, wait, done, panicked
    solidity_file,      \* what the file system answered about the source file
    call_args,          \* the arguments of the call of build_solidity_contract
    used_output_dir,    \* local of build_solidity_contract
    probe,              \* how the spawn of the `solang` probe ended
    arg,                \* the assembled command line
    spawned,            \* the spawns the process attempted, in order
    alive,              \* the children of the process that run
    exit_status,        \* exit status of the shell
    output,             \* captured standard output of the shell
    called,             \* which of the two build entry points exec called
    execute_args,       \* the ExecuteArgs handed to contract_build::execute
    result,             \* what exec returned
    snapshot            \* the first command line assembled for this BuildCommand

vars == << self, cwd, pc, solidity_file, call_args, used_output_dir, probe, arg,
           spawned, alive, exit_status, output, called, execute_args, result,
           snapshot >>

\* the state of a process that is about to call exec
Fresh ==
    /\ pc = "start"
    /\ solidity_file = "unchecked"
    /\ call_args = None
    /\ used_output_dir = None
    /\ probe = "none"
    /\ arg = None
    /\ spawned = <<>>
    /\ alive = {}
    /\ exit_status = None
    /\ output = None
    /\ called = {}
    /\ execute_args = None
    /\ result = NoResult

Init ==
    /\ self \in BuildCommands
    /\ cwd = StartDir
    /\ snapshot = None
    /\ Fresh

(***************************************************************************)
(* exec with --solang, up to the call of build_solidity_contract           *)
(***************************************************************************)
ExecSolang ==
    /\ pc = "start"
    /\ SolangMode(self)
    /\ \E root_ok \in BOOLEAN, file \in {"missing", "present", "vanished"} :
          LET v == ValidateSolang(self, root_ok, file # "missing", file = "present")
              verbosity == VerbosityTryFrom(self.verbosity)
          IN  /\ solidity_file' = IF root_ok /\ IsSome(self.solidity_filename)
                                  THEN file ELSE "unchecked"
              /\ IF v.tag = "Err"
                 THEN /\ result' = v
                      /\ pc' = "done"
                      /\ UNCHANGED << call_args, called >>
                 ELSE IF verbosity.tag = "Err"
                 THEN /\ result' = verbosity
                      /\ pc' = "done"
                      /\ UNCHANGED << call_args, called >>
                 ELSE /\ call_args' = Some(SolangArgs(self, verbosity.val, v.val,
                                                       Canonicalize(cwd, v.val)))
                      /\ called' = called \cup {"build_solidity_contract"}
                      /\ pc' = "probe"
                      /\ UNCHANGED result
    /\ UNCHANGED << self, cwd, used_output_dir, probe, arg, spawned, alive,
                    exit_status, output, execute_args, snapshot >>

(***************************************************************************)
(* build_solidity_contract: resolve the directories, probe for `solang`    *)
(***************************************************************************)
Probe ==
    /\ pc = "probe"
    /\ \E root_ok \in BOOLEAN, outcome \in {"Ok", "NotFound", "Other"} :
          IF ~root_ok
          THEN /\ result' = Err(IoNotFound)
               /\ pc' = "done"
               /\ UNCHANGED << used_output_dir, probe, spawned, alive >>
          ELSE /\ used_output_dir' =
                      Some(UsedOutputDir(Unwrap(call_args).output_dir,
                                         Unwrap(call_args).output_meta, cwd))
               /\ probe' = outcome
               /\ spawned' = Append(spawned, [program |-> "solang", current_dir |-> cwd,
                                              args |-> <<>>, ok |-> outcome = "Ok"])
               /\ alive' = IF outcome = "Ok" THEN alive \cup {"solang"} ELSE alive
               /\ result' = ProbeReturn(outcome)
               /\ pc' = IF ProbeReturn(outcome) = NoResult THEN "assemble" ELSE "done"
    /\ UNCHANGED << self, cwd, solidity_file, call_args, arg, exit_status, output,
                    called, execute_args, snapshot >>

\* the probe's child is never waited for: it ends when it ends
ProbeChildExits ==
    /\ "solang" \in alive
    /\ alive' = alive \ {"solang"}
    /\ UNCHANGED << self, cwd, pc, solidity_file, call_args, used_output_dir, probe,
                    arg, spawned, exit_status, output, called, execute_args, result,
                    snapshot >>

(***************************************************************************)
(* build_solidity_contract: assemble the command, spawn the shell          *)
(***************************************************************************)
SpawnShell ==
    /\ pc = "assemble"
    /\ \E ok \in BOOLEAN :
          LET line == AssembleCommand(Unwrap(call_args))
              sh == ShellCommand(build_target_os, line, cwd)
          IN  /\ arg' = Some(line)
              /\ snapshot' = IF snapshot = None
                             THEN Some([arg |-> line])
                             ELSE snapshot
              /\ spawned' = Append(spawned, [program |-> sh.program,
                                              current_dir |-> sh.current_dir,
                                              args |-> sh.args, ok |-> ok])
              /\ alive' = IF ok THEN alive \cup {sh.program} ELSE alive
              \* .expect("failed to execute process")
              /\ pc' = IF ok THEN "wait" ELSE "panicked"
    /\ UNCHANGED << self, cwd, solidity_file, call_args, used_output_dir, probe,
                    exit_status, output, called, execute_args, result >>

(***************************************************************************)
(* build_solidity_contract: the shell ends, its output is printed; exec    *)
(* returns the synthesized BuildResult                                     *)
(***************************************************************************)
WaitOutput ==
    /\ pc = "wait"
    /\ \E code \in ExitCodes, out \in Outputs :
          /\ alive' = alive \ {"sh", "cmd"}
          /\ exit_status' = Some(code)
          /\ output' = Some(out)
          /\ LET r == BuildSolidityReturn(code, out)
             IN  IF r.tag = "Panic"
                 THEN /\ pc' = "panicked"
                      /\ UNCHANGED result
                 ELSE IF r.tag = "Err"
                 \* build_solidity_contract(..)?
                 THEN /\ pc' = "done"
                      /\ result' = r
                 ELSE /\ pc' = "done"
                      /\ result' = Ok(SolangBuildResult(self, Unwrap(call_args),
                                          VerbosityTryFrom(self.verbosity).val))
    /\ UNCHANGED << self, cwd, solidity_file, call_args, used_output_dir, probe, arg,
                    spawned, called, execute_args, snapshot >>

(***************************************************************************)
(* exec without --solang                                                   *)
(***************************************************************************)
ExecNative ==
    /\ pc = "start"
    /\ ~SolangMode(self)
    /\ \E manifest_ok \in BOOLEAN, unstable_ok \in BOOLEAN, built \in BOOLEAN :
          LET verbosity == VerbosityTryFrom(self.verbosity)
          IN  IF ~manifest_ok
              THEN result' = Err(ManifestError) /\ UNCHANGED << called, execute_args >>
              ELSE IF ~unstable_ok
              THEN result' = Err(UnstableError) /\ UNCHANGED << called, execute_args >>
              ELSE IF verbosity.tag = "Err"
              THEN result' = verbosity /\ UNCHANGED << called, execute_args >>
              ELSE /\ execute_args' = Some(ExecuteArgsOf(self, [path |-> self.manifest_path],
                                               [options |-> self.unstable_options],
                                               verbosity.val))
                   /\ called' = called \cup {"contract_build::execute"}
                   /\ result' = IF built
                                THEN Ok([returned_by |-> "contract_build::execute"])
                                ELSE Err(BuildError)
    /\ pc' = "done"
    /\ UNCHANGED << self, cwd, solidity_file, call_args, used_output_dir, probe, arg,
                    spawned, alive, exit_status, output, snapshot >>

(***************************************************************************)
(* The same command line is run again, from any directory: a new process,  *)
(* the same BuildCommand.                                                  *)
(***************************************************************************)
Reinvoke ==
    /\ pc \in {"done", "panicked"}
    /\ cwd' \in Dirs
    /\ pc' = "start"
    /\ solidity_file' = "unchecked"
    /\ call_args' = None
    /\ used_output_dir' = None
    /\ probe' = "none"
    /\ arg' = None
    /\ spawned' = <<>>
    /\ alive' = {}
    /\ exit_status' = None
    /\ output' = None
    /\ called' = {}
    /\ execute_args' = None
    /\ result' = NoResult
    /\ UNCHANGED << self, snapshot >>

Next ==
    \/ ExecSolang
    \/ Probe
    \/ ProbeChildExits
    \/ SpawnShell
    \/ WaitOutput
    \/ ExecNative
    \/ Reinvoke

Spec == Init /\ [][Next]_vars

(***************************************************************************)
(* Properties                                                              *)
(***************************************************************************)
\* source names whose extension is not `sol`: `a.txt`, `a.rs`, `a`, `.sol`
NonSolFilenames ==
    { <<"a", ".", "t", "x", "t">>, <<"a", ".", "r", "s">>, <<"a">>,
      <<".", "s", "o", "l">> }

Finished == pc \in {"done", "panicked"}

\* C1: with --solang and no --solidity-filename, whatever the other flags,
\* exec returns an error and the process attempts no spawn at all: neither
\* the solang probe nor the shell.
C1_MissingFilenameFailsBeforeAnySpawn ==
    (self.solang /\ self.solidity_filename = None) =>
        /\ pc \in {"start", "done"}
        /\ pc = "done" => result.tag = "Err"
        /\ spawned = <<>>
        /\ alive = {}
        /\ probe = "none"
        /\ "build_solidity_contract" \notin called

C1_Witness ==
    /\ self.solang
    /\ self.solidity_filename = None
    /\ self.build_release
    /\ IsSome(self.output)
    /\ pc = "done"
    /\ result = Err(MissingFilenameError)

\* C2: with --solang and a source name whose extension is not `sol`, whether
\* the file exists or not, exec ends with an error and never calls
\* build_solidity_contract: no command is assembled, nothing is spawned.
C2_WrongExtensionFailsBeforeBuild ==
    (self.solang /\ self.solidity_filename \in {Some(f) : f \in NonSolFilenames}) =>
        /\ pc \in {"start", "done"}
        /\ pc = "done" => result.tag = "Err"
        /\ "build_solidity_contract" \notin called
        /\ call_args = None
        /\ arg = None
        /\ spawned = <<>>

C2_Witness ==
    /\ self.solang
    /\ self.solidity_filename = Some(<<"a", ".", "t", "x", "t">>)
    /\ solidity_file = "present"
    /\ pc = "done"
    /\ result = Err(PathError(<<"a", ".", "t", "x", "t">>))

\* C3: in Solidity mode, when the source file does not exist or has the
\* wrong extension, the error exec returns is the path error naming the
\* source path, for both causes.
C3_PathErrorNamesThePath ==
    ( /\ self.solang
      /\ IsSome(self.solidity_filename)
      /\ pc = "done"
      /\ \/ solidity_file \in {"missing", "vanished"}
         \/ solidity_file = "present" /\ Unwrap(self.solidity_filename) \in NonSolFilenames )
    => /\ result.tag = "Err"
       /\ result.err.names = Some(Str(Unwrap(self.solidity_filename)))

\* C4: the directory build_solidity_contract resolves is the value of
\* --output-meta when given, else the value of --output when given, else
\* the canonicalized current directory.
C4_OutputDirPriority ==
    IsSome(used_output_dir) =>
        Unwrap(used_output_dir) =
            IF IsSome(self.output_meta) THEN Unwrap(self.output_meta)
            ELSE IF IsSome(self.output) THEN Unwrap(self.output)
            ELSE cwd

\* C5: at every point of an invocation at most one child of the process is
\* alive.
C5_AtMostOneChildAlive == Cardinality(alive) <= 1

\* C6: the ExecuteArgs handed to contract_build::execute carry verbosity
\* Quiet whenever --output-json is set, and otherwise the verbosity the
\* --quiet / --verbose flags stand for.
C6_JsonForcesQuiet ==
    IsSome(execute_args) =>
        Unwrap(execute_args).verbosity =
            IF self.output_json THEN "Quiet"
            ELSE IF self.verbosity.quiet THEN "Quiet"
            ELSE IF self.verbosity.verbose THEN "Verbose"
            ELSE "Default"

C6_Witness ==
    /\ IsSome(execute_args)
    /\ self.output_json
    /\ ~self.verbosity.quiet
    /\ Unwrap(execute_args).verbosity = "Quiet"
    /\ pc = "done"

\* C7: the ExecuteArgs handed to contract_build::execute have build_mode
\* Release exactly when --release was given, and Debug otherwise.
C7_ReleaseIffFlag ==
    IsSome(execute_args) =>
        /\ Unwrap(execute_args).build_mode \in {"Release", "Debug"}
        /\ Unwrap(execute_args).build_mode = "Release" <=> self.build_release

C7_Witness ==
    /\ IsSome(execute_args)
    /\ self.build_release
    /\ self.build_offline
    /\ Unwrap(execute_args).build_mode = "Release"
    /\ "contract_build::execute" \in called

\* C8: --solang alone picks the path.  With it contract_build::execute is
\* never called, whatever exec returns; without it build_solidity_contract
\* is never called and nothing is spawned.
C8_ExactlyOnePath ==
    /\ self.solang =>
          /\ "contract_build::execute" \notin called
          /\ execute_args = None
    /\ ~self.solang =>
          /\ "build_solidity_contract" \notin called
          /\ call_args = None
          /\ spawned = <<>>
          /\ alive = {}
    /\ Cardinality(called) <= 1

C8_Witness ==
    /\ self.solang
    /\ IsSome(self.manifest_path)
    /\ pc = "done"
    /\ result.tag = "Ok"
    /\ called = {"build_solidity_contract"}
    /\ Len(spawned) = 2

\* C9: every command line assembled for a BuildCommand equals the first one
\* assembled for it, in whatever directory and after whatever probe outcome
\* the invocations ran.  (The first run is in StartDir: an assembly in
\* another directory belongs to a later run.)
C9_AssemblyDeterministic ==
    (IsSome(arg) /\ IsSome(snapshot)) => Unwrap(arg) = Unwrap(snapshot).arg

C9_Witness ==
    /\ IsSome(arg)
    /\ IsSome(snapshot)
    /\ cwd # StartDir
    /\ probe = "NotFound"
    /\ self.solidity_filename = Some(<<"a", ".", "s", "o", "l">>)
    /\ IsSome(self.emit)
    /\ self.build_release

\* the spawn of the platform shell was attempted and failed
ShellSpawnFailed ==
    \E i \in 1..Len(spawned) : spawned[i].program \in {"sh", "cmd"} /\ ~spawned[i].ok

\* C10 (as stated): when the probe does not find a runnable `solang`, the
\* invocation ends in an abort, never in a returned result.
C10_MissingCompilerAborts ==
    (probe \in {"NotFound", "Other"} /\ Finished) => pc = "panicked"

\* C10 (amended): when the probe does not find a runnable `solang` it only
\* logs and build_solidity_contract goes on; the invocation aborts exactly
\* when the platform shell cannot be spawned or its captured output is not
\* UTF-8, and otherwise exec returns the success result, whatever the exit
\* status of the shell.
C10_AbortOnlyWhenShellFails ==
    probe \in {"NotFound", "Other"} =>
        /\ pc \in {"assemble", "wait", "done", "panicked"}
        /\ ~Finished => result = NoResult
        /\ pc = "panicked" <=> (ShellSpawnFailed \/ (IsSome(output) /\ ~Unwrap(output).utf8))
        /\ pc = "done" => result.tag = "Ok"

C10_Witness ==
    /\ probe = "NotFound"
    /\ pc = "done"
    /\ exit_status = Some(127)
    /\ result.tag = "Ok"

\* C11 (as stated): once the shell has been spawned and has ended, exec has
\* returned the success BuildResult, for every exit status.
C11_AlwaysOkAfterShell ==
    IsSome(exit_status) => (pc = "done" /\ result.tag = "Ok")

\* C11 (amended): once the shell has been spawned and has ended, its exit
\* status plays no part.  When the captured output is UTF-8, exec returns
\* Ok with the BuildResult of the flags, for exit status zero and nonzero
\* alike; when it is not, the process panics, for every exit status alike.
C11_ExitStatusIgnored ==
    IsSome(exit_status) =>
        IF Unwrap(output).utf8
        THEN /\ pc = "done"
             /\ result = Ok(SolangBuildResult(self, Unwrap(call_args),
                                              VerbosityTryFrom(self.verbosity).val))
        ELSE /\ pc = "panicked"
             /\ result = NoResult

C11_Witness ==
    /\ exit_status = Some(1)
    /\ Unwrap(output).utf8
    /\ probe = "Ok"
    /\ pc = "done"
    /\ result.tag = "Ok"

\* the tokens of the command line, in their places, as the flags of `self`
\* give them: a given flag is its name and value (the bare name for a
\* switch), an absent one the empty token; `--target substrate` is fixed
C12_Tokens ==
    << "solang",
       "compile",
       IF IsSome(self.emit) THEN "--emit " \o Unwrap(self.emit) ELSE "",
       IF IsSome(self.contract) THEN "--contract " \o Unwrap(self.contract) ELSE "",
       IF self.no_constant_folding THEN "--no-constant-folding" ELSE "",
       IF self.no_strength_reduce THEN "--no-strength-reduce" ELSE "",
       IF IsSome(self.optimizer_level) THEN "-O " \o Unwrap(self.optimizer_level) ELSE "",
       IF self.no_dead_storage THEN "--no-dead-storage" ELSE "",
       "--target substrate",
       IF IsSome(self.address_length)
          THEN "--address-length " \o ToString(Unwrap(self.address_length)) ELSE "",
       IF self.no_vector_to_slice THEN "--no-vector-to-slice" ELSE "",
       IF self.no_cse THEN "--no-cse" ELSE "",
       IF IsSome(self.value_length)
          THEN "--value-length " \o ToString(Unwrap(self.value_length)) ELSE "",
       IF self.standard_json THEN "--standard-json" ELSE "",
       IF self.verbosity.verbose THEN "--verbose" ELSE "",
       IF IsSome(self.output) THEN "--output " \o Unwrap(self.output) ELSE "",
       IF IsSome(self.output_meta) THEN "--output-meta " \o Unwrap(self.output_meta) ELSE "",
       IF IsSome(self.import_path) THEN "-I " \o Unwrap(self.import_path) ELSE "",
       IF IsSome(self.import_map) THEN "-m " \o Unwrap(self.import_map) ELSE "",
       IF self.no_log_api_return_codes THEN "--no-log-api-return-codes" ELSE "",
       IF self.no_log_runtime_errors THEN "--no-log-runtime-errors" ELSE "",
       IF self.no_print THEN "--no-print" ELSE "",
       IF self.build_release THEN "--release" ELSE "",
       Str(Unwrap(self.solidity_filename)) >>

\* the tokens of ts from the i-th on, each with a space before it
RECURSIVE C12_SpaceBefore(_, _)
C12_SpaceBefore(ts, i) ==
    IF i > Len(ts) THEN "" ELSE " " \o ts[i] \o C12_SpaceBefore(ts, i + 1)

RECURSIVE C12_SumLen(_, _)
C12_SumLen(ts, i) == IF i > Len(ts) THEN 0 ELSE Len(ts[i]) + C12_SumLen(ts, i + 1)

\* C12: the assembled command is the tokens `solang`, `compile`, one token
\* per flag in a fixed place and the source filename, joined by single
\* spaces: absent flags leave their empty token (and its space) in place, so
\* the place of a token never depends on which flags are given.
C12_FixedOrderSingleSpaceJoin ==
    IsSome(arg) =>
        /\ Unwrap(arg) = C12_Tokens[1] \o C12_SpaceBefore(C12_Tokens, 2)
        /\ Len(Unwrap(arg)) = C12_SumLen(C12_Tokens, 1) + Len(C12_Tokens) - 1

C12_Witness ==
    /\ IsSome(arg)
    /\ IsSome(self.emit)
    /\ self.no_cse
    /\ self.solidity_filename = Some(<<"a", ".", "s", "o", "l">>)
    /\ Unwrap(arg) = "solang compile --emit llvm-ir      --target substrate   --no-cse            a.sol"

\* C13: the BuildResult of a successful Solidity-path invocation comes from
\* the flags alone: build_mode is Release exactly when --release was given,
\* and target_directory is the directory given with --output (the empty
\* path when none was given), whatever the shell printed.
C13_ResultFromFlags ==
    (self.solang /\ pc = "done" /\ result.tag = "Ok") =>
        /\ result.val.build_mode = "Release" <=> self.build_release
        /\ result.val.build_mode \in {"Release", "Debug"}
        /\ result.val.target_directory =
              IF IsSome(self.output) THEN Unwrap(self.output) ELSE ""

====
